---- MODULE Spec2Model ----
(***************************************************************************)
(* Model of src/src/tools/snapshot_url.py: the website_snapshot tool, its  *)
(* network and console recorders, the snapshot annotator and the report    *)
(* formatters.                                                             *)
(*                                                                         *)
(* Strings are sequences of one-character strings, so that slicing,        *)
(* searching, splitting and prefix tests are computed as Python computes   *)
(* them. Indexes handed to Find and Slice are 0-based, as in the source.   *)
(***************************************************************************)
EXTENDS Integers, Sequences, FiniteSets, TLC

(***************************************************************************)
(* Bounds of the model.                                                    *)
(***************************************************************************)
MaxLines == 3

MaxEvents == 3

(***************************************************************************)
(* Python string primitives.                                               *)
(***************************************************************************)
\* None where a string is expected, and None where an object is expected
NoneStr == <<"None">>

NoneObj == [none |-> TRUE]

SetMin(S) == CHOOSE x \in S : \A y \in S : x <= y

MinOf(a, b) == IF a <= b THEN a ELSE b

\* s[a:b] for 0 <= a
Slice(s, a, b) == SubSeq(s, a + 1, MinOf(b, Len(s)))

\* s[a:]
SliceFrom(s, a) == SubSeq(s, a + 1, Len(s))

\* s.find(sub, start): lowest 0-based index >= start at which sub occurs, or -1
Find(s, sub, start) ==
    LET hits == {i \in start..(Len(s) - Len(sub)) :
                    \A j \in 1..Len(sub) : s[i + j] = sub[j]}
    IN  IF hits = {} THEN -1 ELSE SetMin(hits)

\* sub in s
Contains(s, sub) == Find(s, sub, 0) # -1

\* s.startswith(prefix)
StartsWith(s, prefix) ==
    /\ Len(prefix) <= Len(s)
    /\ \A j \in 1..Len(prefix) : s[j] = prefix[j]

UpperChars == <<"A","B","C","D","E","F","G","H","I","J","K","L","M",
                "N","O","P","Q","R","S","T","U","V","W","X","Y","Z">>

LowerChars == <<"a","b","c","d","e","f","g","h","i","j","k","l","m",
                "n","o","p","q","r","s","t","u","v","w","x","y","z">>

DigitChars == <<"0","1","2","3","4","5","6","7","8","9">>

LowerChar(c) ==
    IF \E k \in 1..Len(UpperChars) : UpperChars[k] = c
    THEN LowerChars[CHOOSE k \in 1..Len(UpperChars) : UpperChars[k] = c]
    ELSE c

\* s.lower()
Lower(s) == [i \in 1..Len(s) |-> LowerChar(s[i])]

UpperChar(c) ==
    IF \E k \in 1..Len(LowerChars) : LowerChars[k] = c
    THEN UpperChars[CHOOSE k \in 1..Len(LowerChars) : LowerChars[k] = c]
    ELSE c

\* s.upper()
Upper(s) == [i \in 1..Len(s) |-> UpperChar(s[i])]

IsAlpha(c) == \E k \in 1..Len(LowerChars) : LowerChars[k] = LowerChar(c)

IsDigit(c) == \E k \in 1..Len(DigitChars) : DigitChars[k] = c

Whitespace == {" ", "\t", "\n", "\r"}

RECURSIVE LStrip(_)
LStrip(s) ==
    IF s # <<>> /\ Head(s) \in Whitespace THEN LStrip(Tail(s)) ELSE s

RECURSIVE RStrip(_)
RStrip(s) ==
    IF s # <<>> /\ s[Len(s)] \in Whitespace
    THEN RStrip(SubSeq(s, 1, Len(s) - 1))
    ELSE s

\* s.strip()
Strip(s) == RStrip(LStrip(s))

\* s.split("\n")
RECURSIVE SplitLines(_)
SplitLines(s) ==
    LET i == Find(s, <<"\n">>, 0)
    IN  IF i = -1 THEN <<s>>
        ELSE <<Slice(s, 0, i)>> \o SplitLines(SliceFrom(s, i + 1))

\* "\n".join(lines)
RECURSIVE JoinLines(_)
JoinLines(lines) ==
    IF lines = <<>> THEN <<>>
    ELSE IF Len(lines) = 1 THEN lines[1]
    ELSE lines[1] \o <<"\n">> \o JoinLines(Tail(lines))

\* str(n) for an integer n
RECURSIVE NatToStr(_)
NatToStr(n) ==
    IF n < 10 THEN <<DigitChars[n + 1]>>
    ELSE NatToStr(n \div 10) \o <<DigitChars[(n % 10) + 1]>>

IntToStr(n) == IF n < 0 THEN <<"-">> \o NatToStr(-n) ELSE NatToStr(n)

DigitValue(c) == (CHOOSE k \in 1..Len(DigitChars) : DigitChars[k] = c) - 1

RECURSIVE DigitsToNat(_, _)
DigitsToNat(s, acc) ==
    IF s = <<>> THEN acc
    ELSE DigitsToNat(Tail(s), acc * 10 + DigitValue(Head(s)))

\* int(s): surrounding whitespace and one sign are accepted; anything else
\* that is not a run of decimal digits raises ValueError (ok is FALSE).
ParseInt(s) ==
    LET t == Strip(s)
        neg == t # <<>> /\ Head(t) = "-"
        signed == t # <<>> /\ Head(t) \in {"-", "+"}
        d == IF signed THEN Tail(t) ELSE t
    IN  IF d = <<>> \/ \E i \in 1..Len(d) : ~IsDigit(d[i])
        THEN [ok |-> FALSE, value |-> 0]
        ELSE [ok |-> TRUE,
              value |-> IF neg THEN -DigitsToNat(d, 0) ELSE DigitsToNat(d, 0)]

(***************************************************************************)
(* Snapshot annotator: add_element_refs and parse_refs.                    *)
(***************************************************************************)
Keywords == { <<"b","u","t","t","o","n">>, <<"l","i","n","k">>,
              <<"i","n","p","u","t">>, <<"t","e","x","t","b","o","x">> }

RefMarker == <<"[","r","e","f","=">>

\* any(keyword in line.lower() for keyword in [...])
IsInteractive(line) == \E keyword \in Keywords : Contains(Lower(line), keyword)

\* f"{line} [ref={ref_counter}]"
TagLine(line, ref_counter) ==
    line \o <<" ">> \o RefMarker \o IntToStr(ref_counter) \o <<"]">>

\* the loop of add_element_refs over lines[i..], with the counter's value
RECURSIVE AnnotateFrom(_, _, _)
AnnotateFrom(lines, i, ref_counter) ==
    IF i > Len(lines) THEN lines
    ELSE IF IsInteractive(lines[i])
         THEN AnnotateFrom([lines EXCEPT ![i] = TagLine(lines[i], ref_counter)],
                           i + 1, ref_counter + 1)
         ELSE AnnotateFrom(lines, i + 1, ref_counter)

add_element_refs(snapshot) == JoinLines(AnnotateFrom(SplitLines(snapshot), 1, 1))

\* the entries parse_refs appends for one line (none or one)
ParseLine(line) ==
    IF Contains(line, RefMarker)
    THEN LET ref_start == Find(line, RefMarker, 0) + 5
             ref_end == Find(line, <<"]">>, ref_start)
         IN  IF ref_end > ref_start
             THEN << [ref |-> Slice(line, ref_start, ref_end),
                      element |-> Strip(Slice(line, 0, Find(line, RefMarker, 0)))] >>
             ELSE <<>>
    ELSE <<>>

RECURSIVE ParseFrom(_, _)
ParseFrom(lines, i) ==
    IF i > Len(lines) THEN <<>>
    ELSE ParseLine(lines[i]) \o ParseFrom(lines, i + 1)

parse_refs(snapshot) == ParseFrom(SplitLines(snapshot), 1)

(***************************************************************************)
(* Body-inclusion policy and the report formatters.                        *)
(***************************************************************************)
MaxShownLength == 50000

PreviewLen == 200

ShownTypes == { <<"a","p","p","l","i","c","a","t","i","o","n","/","j","s","o","n">>,
                <<"t","e","x","t","/">>,
                <<"a","p","p","l","i","c","a","t","i","o","n","/","x","m","l">> }

\* faulty variant: the size threshold is exclusive
should_show_content_below(content_type, content_length) ==
    /\ content_length < MaxShownLength
    /\ \E t \in ShownTypes : StartsWith(content_type, t)

should_show_content(content_type, content_length) ==
    /\ content_length <= MaxShownLength
    /\ \E t \in ShownTypes : StartsWith(content_type, t)

\* f"[{content_type} - {content_length} bytes]"
SizePlaceholder(content_type, content_length) ==
    <<"[">> \o content_type \o <<" ", "-", " ">> \o IntToStr(content_length)
        \o <<" ", "b", "y", "t", "e", "s", "]">>

ReadErrorPlaceholder == <<"[Error reading response]">>

\* truthiness of an Optional[str]: None and "" are false
Truthy(s) == s # NoneStr /\ s # <<>>

\* faulty variant: the body summary is shown whole
PreviewUntruncated(body) == body \o <<"...">>

\* f"{req.response_body[:200]}..."
Preview(body) == Slice(body, 0, PreviewLen) \o <<"...">>

\* faulty variant: a record without a response is not rendered
FormatRecordCompletedOnly(req) ==
    IF req.request # NoneObj /\ req.response # NoneObj
    THEN << <<"REQ ">> \o req.request.method \o <<" ">> \o req.request.url,
            <<"   Status: ">> \o IntToStr(req.response.status) >>
         \o (IF Truthy(req.response_body)
             THEN << <<"   Response: ">> \o Preview(req.response_body) >>
             ELSE <<>>)
    ELSE <<>>

\* the lines format_requests appends for one record
FormatRecord(req) ==
    IF req.request # NoneObj
    THEN << <<"REQ ">> \o req.request.method \o <<" ">> \o req.request.url,
            IF req.response # NoneObj
            THEN <<"   Status: ">> \o IntToStr(req.response.status)
            ELSE <<"   Status: ", "Pending">> >>
         \o (IF Truthy(req.response_body)
             THEN << <<"   Response: ">> \o Preview(req.response_body) >>
             ELSE <<>>)
    ELSE <<>>

RECURSIVE FormatRecords(_, _)
FormatRecords(requests, i) ==
    IF i > Len(requests) THEN <<>>
    ELSE FormatRecord(requests[i]) \o FormatRecords(requests, i + 1)

format_requests(requests) ==
    IF requests = <<>> THEN <<"No requests captured">>
    ELSE JoinLines(FormatRecords(requests, 1))

\* getattr(msg, 'type', 'log'): NoneStr is a message without the attribute
MessageType(msg) == IF msg.type = NoneStr THEN <<"l","o","g">> ELSE msg.type

\* f"[{type.upper()}] {text}" for one console message
FormatMessage(msg) ==
    <<"CON [">> \o Upper(MessageType(msg)) \o <<"] ">> \o msg.text

format_console(messages) ==
    IF messages = <<>> THEN <<"No console messages">>
    ELSE JoinLines([i \in 1..Len(messages) |-> FormatMessage(messages[i])])

(***************************************************************************)
(* URL validator: urlparse as is_valid_url uses it.                        *)
(***************************************************************************)
SchemeExtra == {"+", "-", "."}

IsSchemeChar(c) == IsAlpha(c) \/ IsDigit(c) \/ c \in SchemeExtra

\* end of the network location: the first of "/", "?", "#" from position 2
NetlocEnd(url) ==
    LET ends == {i \in 2..(Len(url) - 1) : url[i + 1] \in {"/", "?", "#"}}
    IN  IF ends = {} THEN Len(url) ELSE SetMin(ends)

\* urlparse(url): scheme and netloc; raised where it raises ValueError
\* (a network location with one square bracket but not the other)
urlparse(raw) ==
    LET url == LStrip(raw)
        i == Find(url, <<":">>, 0)
        has_scheme == /\ i > 0
                      /\ IsAlpha(url[1])
                      /\ \A k \in 1..i : IsSchemeChar(url[k])
        scheme == IF has_scheme THEN Lower(Slice(url, 0, i)) ELSE <<>>
        rest == IF has_scheme THEN SliceFrom(url, i + 1) ELSE url
        netloc == IF StartsWith(rest, <<"/", "/">>)
                  THEN Slice(rest, 2, NetlocEnd(rest))
                  ELSE <<>>
        open == Contains(netloc, <<"[">>)
        close == Contains(netloc, <<"]">>)
    IN  [raised |-> open # close, scheme |-> scheme, netloc |-> netloc]

\* faulty variant: only the scheme is required
is_valid_url_scheme_only(url) == urlparse(url).scheme # <<>>

\* all([parsed.scheme, parsed.netloc]), where urlparse returns
is_valid_url(url) ==
    LET parsed == urlparse(url)
    IN  parsed.scheme # <<>> /\ parsed.netloc # <<>>

(***************************************************************************)
(* The environment: what the page, the browser and the caller can supply.  *)
(***************************************************************************)
GET == <<"G","E","T">>

POST == <<"P","O","S","T">>

BodyMethods == {POST, <<"P","U","T">>, <<"P","A","T","C","H">>}

\* a request object of the page; id stands for the object's identity
RequestObj(id, method) ==
    [id |-> id, method |-> method, url |-> <<"/">> \o IntToStr(id)]

Requests == {RequestObj(1, GET), RequestObj(2, POST)}

PostBodies == { <<"k","=","v">> }

Json == <<"a","p","p","l","i","c","a","t","i","o","n","/","j","s","o","n">>

Png == <<"i","m","a","g","e","/","p","n","g">>

Html == <<"t","e","x","t","/","h","t","m","l">>

Xml == <<"a","p","p","l","i","c","a","t","i","o","n","/","x","m","l">>

ShortBody == <<"{","}">>

LongBody == [i \in 1..(PreviewLen + 1) |-> "x"]

\* header values a response can carry; NoneStr is an absent header
ResponseKinds ==
    { [status |-> 200, content_type |-> Json,
       content_length |-> <<"1","0","0">>, text |-> ShortBody],
      [status |-> 200, content_type |-> Png,
       content_length |-> <<"1","0">>, text |-> ShortBody],
      [status |-> 200, content_type |-> Html,
       content_length |-> <<"5","0","0","0","1">>, text |-> ShortBody],
      [status |-> 200, content_type |-> Xml,
       content_length |-> <<"5","0","0","0","0">>, text |-> <<>>],
      [status |-> 404, content_type |-> Html,
       content_length |-> NoneStr, text |-> LongBody],
      [status |-> 204, content_type |-> NoneStr,
       content_length |-> <<"n","a","n">>, text |-> <<>>] }

ResponseObj(request, kind) ==
    [request |-> request, status |-> kind.status,
     headers |-> [content_type |-> kind.content_type,
                  content_length |-> kind.content_length],
     text |-> kind.text]

ConsoleMessages ==
    { [type |-> <<"l","o","g">>, text |-> <<"h","i">>],
      [type |-> <<"e","r","r","o","r">>, text |-> <<"n","o">>] }

Button == <<"b","u","t","t","o","n"," ","A">>

SampleLines ==
    { Button,
      <<"L","i","n","k">>,
      <<"h","e","a","d","i","n","g">>,
      <<"t","e","x","t"," ","[","r","e","f","=","9","]">>,
      <<"i","n","p","u","t"," ","[","r","e","f","=","]">>,
      <<>> }

\* every text of at most n lines drawn from SampleLines
SnapshotTexts(n) ==
    {JoinLines(ls) : ls \in UNION {[1..k -> SampleLines] : k \in 0..n}}

\* what page.locator("body").aria_snapshot() returns in the orchestrator runs
AriaSnapshots ==
    { JoinLines(<< <<"h","e","a","d","i","n","g">>, Button, <<"L","i","n","k">> >>),
      <<"t","e","x","t"," ","[","r","e","f","=","9","]">> }

PageTitle == <<"T">>

PageUrl == <<"h",":","/","/","a","/">>

ValidUrl == <<"h",":","/","/","a">>

TargetUrls ==
    { ValidUrl,
      <<"n","o","t","-","a","-","u","r","l">>,
      <<"/","/","a">>,
      <<"h",":","/","/","/","x">>,
      <<"h",":","/","/","[">>,
      <<>> }

(***************************************************************************)
(* State of one invocation of website_snapshot.                            *)
(***************************************************************************)
VARIABLES
    target_url,         \* the argument
    pc,                 \* the await at which the orchestrator is suspended
    calls,              \* the browser operations invoked so far, in order
    raised,             \* the operations that raised, in order
    handlers,           \* the events page.on has a handler for
    network_requests,   \* List[NetworkRequest]
    console_messages,   \* List[Any]
    req_tasks,          \* handle_request tasks suspended in post_data()
    resp_tasks,         \* handle_response tasks suspended in text()
    emitted,            \* ids of the requests of the request events, in order
    responses,          \* ids of the requests of the response events, in order
    console_events,     \* the messages of the console events, in order
    aria_snapshot,      \* locals of the capture and assembly steps
    snapshot_with_refs,
    element_refs,
    output_parts,
    summary_parts,
    retval,             \* value of the return statement executed, if any
    outcome,            \* "running", "returned" or "raised"
    result              \* the list the caller receives

vars == << target_url, pc, calls, raised, handlers, network_requests,
           console_messages, req_tasks, resp_tasks, emitted, responses,
           console_events,
           aria_snapshot, snapshot_with_refs, element_refs, output_parts,
           summary_parts, retval, outcome, result >>

recorder == << network_requests, console_messages, req_tasks, resp_tasks,
               emitted, responses, console_events >>

locals == << aria_snapshot, snapshot_with_refs, element_refs, output_parts,
             summary_parts >>

Idle ==
    /\ calls = <<>>
    /\ raised = <<>>
    /\ handlers = {}
    /\ network_requests = <<>>
    /\ console_messages = <<>>
    /\ req_tasks = {}
    /\ resp_tasks = {}
    /\ emitted = <<>>
    /\ responses = <<>>
    /\ console_events = <<>>
    /\ snapshot_with_refs = <<>>
    /\ element_refs = <<>>
    /\ output_parts = <<>>
    /\ summary_parts = <<>>
    /\ retval = <<>>
    /\ outcome = "running"
    /\ result = <<>>

Init ==
    /\ target_url \in TargetUrls
    /\ pc = "call"
    /\ aria_snapshot = <<>>
    /\ Idle

(***************************************************************************)
(* The orchestrator, website_snapshot. Each action is the return (or the   *)
(* raise) of the await at which the coroutine is suspended, together with  *)
(* the synchronous code that follows it up to the next await. The emoji    *)
(* that open the source's literals are left out of the texts.              *)
(***************************************************************************)
InvalidUrlText == <<"Url must be valid, example: https://example.com">>

\* str(error) of the exception an operation raises
ErrorOf(op) == <<op, " failed">>

\* faulty variant: the error's description is not embedded
FailedTextWithoutDescription(error) == <<"Failed: ">>

\* f"Failed: {str(error)}"
FailedText(error) == <<"Failed: ">> \o error

\* f"Captured snapshot with {', '.join(summary_parts)}"
SummaryText(parts) ==
    <<"Captured snapshot with ">> \o parts[1] \o <<", ">> \o parts[2]
        \o <<", ">> \o parts[3]

\* "Element References:\n" + "\n".join(f"[ref={r['ref']}]: {r['element']}")
ReferenceText(refs) ==
    <<"Element References:", "\n">>
        \o JoinLines([i \in 1..Len(refs) |->
                        RefMarker \o refs[i].ref \o <<"]", ":", " ">>
                            \o refs[i].element])

\* faulty variant: only the records with a response are counted
CountedCompleted(requests) ==
    Cardinality({i \in 1..Len(requests) : requests[i].response # NoneObj})

\* the number of records the summary counts: those with a request handle
CountedRequests(requests) ==
    Cardinality({i \in 1..Len(requests) : requests[i].request # NoneObj})

\* faulty variant: the except clause returns without a finally clause
FailWithoutFinally(op) ==
    /\ raised' = Append(raised, op)
    /\ retval' = << FailedText(ErrorOf(op)) >>
    /\ calls' = calls
    /\ pc' = "browser_close"

\* the except clause of the try block, then the finally clause's await
Fail(op) ==
    /\ raised' = Append(raised, op)
    /\ retval' = << FailedText(ErrorOf(op)) >>
    /\ calls' = Append(calls, "browser.close")
    /\ pc' = "browser_close"

\* an exception that leaves website_snapshot
Propagate(op) ==
    /\ raised' = Append(raised, op)
    /\ outcome' = "raised"
    /\ pc' = "done"

\* lines 111-118: validation, then entering async_playwright()
Validate ==
    /\ pc = "call"
    /\ IF urlparse(target_url).raised
       THEN /\ Propagate("urlparse")
            /\ UNCHANGED << calls, retval, result >>
       ELSE IF ~is_valid_url(target_url)
       THEN /\ retval' = << InvalidUrlText >>
            /\ result' = << InvalidUrlText >>
            /\ outcome' = "returned"
            /\ pc' = "done"
            /\ UNCHANGED << calls, raised >>
       ELSE /\ calls' = Append(calls, "async_playwright")
            /\ pc' = "playwright_start"
            /\ UNCHANGED << raised, retval, outcome, result >>
    /\ UNCHANGED << target_url, handlers, recorder, locals >>

\* line 118 returns; line 119 calls launch
PlaywrightStart ==
    /\ pc = "playwright_start"
    /\ \E ok \in BOOLEAN :
        IF ok
        THEN /\ calls' = Append(calls, "launch")
             /\ pc' = "launch"
             /\ UNCHANGED << raised, outcome >>
        ELSE /\ Propagate("async_playwright")
             /\ UNCHANGED calls
    /\ UNCHANGED << target_url, handlers, recorder, locals, retval, result >>

\* line 119 returns; line 122 calls new_context
Launch ==
    /\ pc = "launch"
    /\ \E ok \in BOOLEAN :
        IF ok
        THEN /\ calls' = Append(calls, "new_context")
             /\ pc' = "new_context"
             /\ UNCHANGED << raised, outcome >>
        ELSE /\ Propagate("launch")
             /\ UNCHANGED calls
    /\ UNCHANGED << target_url, handlers, recorder, locals, retval, result >>

\* line 122 returns; line 126 calls new_page
NewContext ==
    /\ pc = "new_context"
    /\ \E ok \in BOOLEAN :
        IF ok
        THEN /\ calls' = Append(calls, "new_page")
             /\ pc' = "new_page"
             /\ UNCHANGED << raised, retval >>
        ELSE Fail("new_context")
    /\ UNCHANGED << target_url, handlers, recorder, locals, outcome, result >>

\* faulty variant: the console subscription of line 133 is missing
SubscriptionsWithoutConsole == {"request", "response"}

\* the events lines 133-167 subscribe to
Subscriptions == {"console", "request", "response"}

\* line 126 returns; lines 127-167 register the handlers; line 170 calls goto
NewPage ==
    /\ pc = "new_page"
    /\ \E ok \in BOOLEAN :
        IF ok
        THEN /\ handlers' = Subscriptions
             /\ calls' = Append(calls, "goto")
             /\ pc' = "goto"
             /\ UNCHANGED << raised, retval >>
        ELSE /\ Fail("new_page")
             /\ UNCHANGED handlers
    /\ UNCHANGED << target_url, recorder, locals, outcome, result >>

\* line 170 returns; line 171 calls wait_for_load_state
Goto ==
    /\ pc = "goto"
    /\ \E ok \in BOOLEAN :
        IF ok
        THEN /\ calls' = Append(calls, "wait_for_load_state")
             /\ pc' = "wait_load"
             /\ UNCHANGED << raised, retval >>
        ELSE Fail("goto")
    /\ UNCHANGED << target_url, handlers, recorder, locals, outcome, result >>

\* line 171 returns; line 174 calls wait_for_selector
WaitLoad ==
    /\ pc = "wait_load"
    /\ \E ok \in BOOLEAN :
        IF ok
        THEN /\ calls' = Append(calls, "wait_for_selector")
             /\ pc' = "wait_selector"
             /\ UNCHANGED << raised, retval >>
        ELSE Fail("wait_for_load_state")
    /\ UNCHANGED << target_url, handlers, recorder, locals, outcome, result >>

\* faulty variant: the selector wait is not wrapped in its own try
WaitSelectorFatal ==
    /\ pc = "wait_selector"
    /\ \E ok \in BOOLEAN :
        IF ok
        THEN /\ calls' = Append(calls, "aria_snapshot")
             /\ pc' = "aria_snapshot"
             /\ UNCHANGED << raised, retval >>
        ELSE Fail("wait_for_selector")
    /\ UNCHANGED << target_url, handlers, recorder, locals, outcome, result >>

\* line 174 returns and line 181 calls aria_snapshot, or it raises and
\* line 178 calls wait_for_timeout
WaitSelector ==
    /\ pc = "wait_selector"
    /\ \E ok \in BOOLEAN :
        IF ok
        THEN /\ calls' = Append(calls, "aria_snapshot")
             /\ pc' = "aria_snapshot"
             /\ UNCHANGED raised
        ELSE /\ raised' = Append(raised, "wait_for_selector")
             /\ calls' = Append(calls, "wait_for_timeout")
             /\ pc' = "wait_timeout"
    /\ UNCHANGED << target_url, handlers, recorder, locals, retval, outcome,
                    result >>

\* line 178 returns; line 181 calls aria_snapshot
WaitTimeout ==
    /\ pc = "wait_timeout"
    /\ \E ok \in BOOLEAN :
        IF ok
        THEN /\ calls' = Append(calls, "aria_snapshot")
             /\ pc' = "aria_snapshot"
             /\ UNCHANGED << raised, retval >>
        ELSE Fail("wait_for_timeout")
    /\ UNCHANGED << target_url, handlers, recorder, locals, outcome, result >>

\* line 181 returns; lines 182-183 annotate and parse; line 187 calls title
AriaSnapshot ==
    /\ pc = "aria_snapshot"
    /\ \/ \E text \in AriaSnapshots :
            /\ aria_snapshot' = text
            /\ snapshot_with_refs' = add_element_refs(text)
            /\ element_refs' = parse_refs(add_element_refs(text))
            /\ calls' = Append(calls, "title")
            /\ pc' = "title"
            /\ UNCHANGED << raised, retval >>
       \/ /\ Fail("aria_snapshot")
          /\ UNCHANGED << aria_snapshot, snapshot_with_refs, element_refs >>
    /\ UNCHANGED << target_url, handlers, recorder, output_parts, summary_parts,
                    outcome, result >>

\* lines 186-198
OutputParts(title, requests, messages) ==
    << <<"TITLE ">> \o title,
       <<"URL ">> \o PageUrl,
       <<>>,
       <<"Accessibility Snapshot:">>,
       snapshot_with_refs,
       <<>>,
       <<"Network Requests:">>,
       format_requests(requests),
       <<>>,
       <<"Console:">>,
       format_console(messages) >>

\* lines 200-206
SummaryParts(refs, requests, messages) ==
    << IntToStr(Len(refs)) \o <<" elements">>,
       IntToStr(CountedRequests(requests)) \o <<" requests">>,
       IntToStr(Len(messages)) \o <<" console messages">> >>

\* faulty variant: the context is never closed explicitly
TitleWithoutContextClose ==
    /\ pc = "title"
    /\ \E ok \in BOOLEAN :
        IF ok
        THEN /\ output_parts' =
                    OutputParts(PageTitle, network_requests, console_messages)
             /\ summary_parts' =
                    SummaryParts(element_refs, network_requests, console_messages)
             /\ retval' =
                    << SummaryText(summary_parts'), JoinLines(output_parts'),
                       ReferenceText(element_refs) >>
             /\ calls' = Append(calls, "browser.close")
             /\ pc' = "browser_close"
             /\ UNCHANGED raised
        ELSE /\ Fail("title")
             /\ UNCHANGED << output_parts, summary_parts >>
    /\ UNCHANGED << target_url, handlers, recorder, aria_snapshot,
                    snapshot_with_refs, element_refs, outcome, result >>

\* line 187 returns; lines 186-206 assemble; line 208 calls context.close
Title ==
    /\ pc = "title"
    /\ \E ok \in BOOLEAN :
        IF ok
        THEN /\ output_parts' =
                    OutputParts(PageTitle, network_requests, console_messages)
             /\ summary_parts' =
                    SummaryParts(element_refs, network_requests, console_messages)
             /\ calls' = Append(calls, "context.close")
             /\ pc' = "context_close"
             /\ UNCHANGED << raised, retval >>
        ELSE /\ Fail("title")
             /\ UNCHANGED << output_parts, summary_parts >>
    /\ UNCHANGED << target_url, handlers, recorder, aria_snapshot,
                    snapshot_with_refs, element_refs, outcome, result >>

\* lines 210-223
Report ==
    << SummaryText(summary_parts),
       JoinLines(output_parts),
       ReferenceText(element_refs) >>

\* line 208 returns; line 210 returns the report; line 228 calls browser.close
ContextClose ==
    /\ pc = "context_close"
    /\ \E ok \in BOOLEAN :
        IF ok
        THEN /\ retval' = Report
             /\ calls' = Append(calls, "browser.close")
             /\ pc' = "browser_close"
             /\ UNCHANGED raised
        ELSE Fail("context.close")
    /\ UNCHANGED << target_url, handlers, recorder, locals, outcome, result >>

\* line 228 returns and the function returns the pending value, or it raises
BrowserClose ==
    /\ pc = "browser_close"
    /\ \E ok \in BOOLEAN :
        IF ok
        THEN /\ result' = retval
             /\ outcome' = "returned"
             /\ pc' = "done"
             /\ UNCHANGED raised
        ELSE /\ Propagate("browser.close")
             /\ UNCHANGED result
    /\ UNCHANGED << target_url, calls, handlers, recorder, locals, retval >>

(***************************************************************************)
(* The recorders: the console lambda, handle_request and handle_response.  *)
(* The page delivers events, and the event loop resumes handler tasks,     *)
(* only while the orchestrator is suspended in an await on the live page.  *)
(***************************************************************************)
PageLive == {"goto", "wait_load", "wait_selector", "wait_timeout",
             "aria_snapshot", "title", "context_close"}

\* the number of events the page has delivered
Events == Len(emitted) + Len(responses) + Len(console_events)

orchestrator == << target_url, pc, calls, raised, handlers, locals, retval,
                   outcome, result >>

\* NetworkRequest(request=request, request_body=request_body)
NetworkRequest(request, request_body) ==
    [request |-> request, response |-> NoneObj,
     request_body |-> request_body, response_body |-> NoneStr]

\* whether handle_request awaits the request body: line 137
ReadsPostData(request) == Upper(request.method) \in BodyMethods

\* a request event: handle_request runs to its await, or to its end
OnRequest ==
    /\ pc \in PageLive
    /\ "request" \in handlers
    /\ Events < MaxEvents
    /\ \E request \in Requests :
        /\ \A k \in 1..Len(emitted) : emitted[k] # request.id
        /\ emitted' = Append(emitted, request.id)
        /\ IF ReadsPostData(request)
           THEN /\ req_tasks' = req_tasks \cup {request}
                /\ UNCHANGED network_requests
           ELSE /\ network_requests' =
                        Append(network_requests, NetworkRequest(request, NoneStr))
                /\ UNCHANGED req_tasks
    /\ UNCHANGED << orchestrator, console_messages, resp_tasks, responses,
                    console_events >>

\* request.post_data() returns or raises: lines 139-144
OnRequestResume ==
    /\ pc \in PageLive
    /\ \E request \in req_tasks :
        /\ req_tasks' = req_tasks \ {request}
        /\ \E request_body \in PostBodies \cup {NoneStr} :
            network_requests' =
                Append(network_requests, NetworkRequest(request, request_body))
    /\ UNCHANGED << orchestrator, console_messages, resp_tasks, emitted,
                    responses, console_events >>

\* headers.get(key, default)
HeaderGet(value, default) == IF value = NoneStr THEN default ELSE value

\* faulty variant: the test "not entry.response" of line 148 is missing
MatchingEntryAnyState(requests, response) ==
    LET hits == {i \in 1..Len(requests) :
                    requests[i].request = response.request}
    IN  IF hits = {} THEN 0 ELSE SetMin(hits)

\* faulty variant: the test "entry.request == response.request" of line 148
\* is missing
MatchingEntryAnyRequest(requests, response) ==
    LET hits == {i \in 1..Len(requests) : requests[i].response = NoneObj}
    IN  IF hits = {} THEN 0 ELSE SetMin(hits)

\* the first record, in list order, that handle_response attaches to: 0 if none
MatchingEntry(requests, response) ==
    LET hits == {i \in 1..Len(requests) :
                    /\ requests[i].request = response.request
                    /\ requests[i].response = NoneObj}
    IN  IF hits = {} THEN 0 ELSE SetMin(hits)

\* a response event: handle_response runs to its await, or to its end
OnResponse ==
    /\ pc \in PageLive
    /\ "response" \in handlers
    /\ Events < MaxEvents
    /\ \E request \in Requests, kind \in ResponseKinds :
        /\ \E k \in 1..Len(emitted) : emitted[k] = request.id
        /\ responses' = Append(responses, request.id)
        /\ LET response == ResponseObj(request, kind)
               i == MatchingEntry(network_requests, response)
               content_type == HeaderGet(response.headers.content_type, <<>>)
               content_length ==
                    ParseInt(HeaderGet(response.headers.content_length, <<"0">>))
           IN  IF i = 0
               THEN UNCHANGED << network_requests, resp_tasks >>
               ELSE IF ~content_length.ok
               THEN /\ network_requests' =
                        [network_requests EXCEPT
                            ![i].response = response,
                            ![i].response_body = ReadErrorPlaceholder]
                    /\ UNCHANGED resp_tasks
               ELSE IF should_show_content(content_type, content_length.value)
               THEN /\ network_requests' =
                        [network_requests EXCEPT ![i].response = response]
                    /\ resp_tasks' = resp_tasks \cup {i}
               ELSE /\ network_requests' =
                        [network_requests EXCEPT
                            ![i].response = response,
                            ![i].response_body =
                                SizePlaceholder(content_type, content_length.value)]
                    /\ UNCHANGED resp_tasks
    /\ UNCHANGED << orchestrator, console_messages, req_tasks, emitted,
                    console_events >>

\* faulty variant: the except clause of lines 162-163 leaves the body absent
OnResponseResumeWithoutPlaceholder ==
    /\ pc \in PageLive
    /\ \E i \in resp_tasks :
        /\ resp_tasks' = resp_tasks \ {i}
        /\ \E ok \in BOOLEAN :
            network_requests' =
                [network_requests EXCEPT ![i].response_body =
                    IF ok THEN network_requests[i].response.text
                    ELSE NoneStr]
    /\ UNCHANGED << orchestrator, console_messages, req_tasks, emitted,
                    responses, console_events >>

\* response.text() returns or raises: lines 157 and 162-163
OnResponseResume ==
    /\ pc \in PageLive
    /\ \E i \in resp_tasks :
        /\ resp_tasks' = resp_tasks \ {i}
        /\ \E ok \in BOOLEAN :
            network_requests' =
                [network_requests EXCEPT ![i].response_body =
                    IF ok THEN network_requests[i].response.text
                    ELSE ReadErrorPlaceholder]
    /\ UNCHANGED << orchestrator, console_messages, req_tasks, emitted,
                    responses, console_events >>

ConsoleAppendDistinct(messages, msg) ==
    IF \E k \in 1..Len(messages) : messages[k] = msg THEN messages
    ELSE Append(messages, msg)

\* lambda msg: console_messages.append(msg), line 133
ConsoleAppend(messages, msg) == Append(messages, msg)

\* a console event: line 133
OnConsole ==
    /\ pc \in PageLive
    /\ "console" \in handlers
    /\ Events < MaxEvents
    /\ \E msg \in ConsoleMessages :
        /\ console_events' = Append(console_events, msg)
        /\ console_messages' = ConsoleAppend(console_messages, msg)
    /\ UNCHANGED << orchestrator, network_requests, req_tasks, resp_tasks,
                    emitted, responses >>

Next ==
    \/ Validate
    \/ PlaywrightStart
    \/ Launch
    \/ NewContext
    \/ NewPage
    \/ Goto
    \/ WaitLoad
    \/ WaitSelector
    \/ WaitTimeout
    \/ AriaSnapshot
    \/ Title
    \/ ContextClose
    \/ BrowserClose
    \/ OnRequest
    \/ OnRequestResume
    \/ OnResponse
    \/ OnResponseResume
    \/ OnConsole

Spec == Init /\ [][Next]_vars

(***************************************************************************)
(* The snapshot annotator on its own: add_element_refs, then parse_refs,   *)
(* applied to every text of at most MaxLines sample lines.                 *)
(***************************************************************************)
InitRefs ==
    /\ target_url = ValidUrl
    /\ pc = "refs_annotate"
    /\ aria_snapshot \in SnapshotTexts(MaxLines)
    /\ Idle

RefsAnnotate ==
    /\ pc = "refs_annotate"
    /\ snapshot_with_refs' = add_element_refs(aria_snapshot)
    /\ pc' = "refs_parse"
    /\ UNCHANGED << target_url, calls, raised, handlers, recorder, aria_snapshot,
                    element_refs, output_parts, summary_parts, retval, outcome,
                    result >>

RefsParse ==
    /\ pc = "refs_parse"
    /\ element_refs' = parse_refs(snapshot_with_refs)
    /\ pc' = "refs_done"
    /\ UNCHANGED << target_url, calls, raised, handlers, recorder, aria_snapshot,
                    snapshot_with_refs, output_parts, summary_parts, retval,
                    outcome, result >>

NextRefs ==
    \/ RefsAnnotate
    \/ RefsParse

SpecRefs == InitRefs /\ [][NextRefs]_vars

(***************************************************************************)
(* Vocabulary of the properties.                                           *)
(***************************************************************************)
Range(s) == {s[i] : i \in DOMAIN s}

Count(s, x) == Cardinality({i \in DOMAIN s : s[i] = x})

\* position of the first x in s; 0 if there is none
IndexOf(s, x) ==
    IF x \in Range(s) THEN SetMin({i \in DOMAIN s : s[i] = x}) ELSE 0

Done == pc = "done"

\* the await of op has returned normally
Succeeded(op) == op \in Range(calls) /\ op \notin Range(raised) /\ calls[Len(calls)] # op

BrowserLaunched == Succeeded("launch")

ContextCreated == Succeeded("new_context")

\* the operations inside the try block whose failure the except clause reports
FatalOps == {"new_context", "new_page", "goto", "wait_for_load_state",
             "wait_for_timeout", "aria_snapshot", "title", "context.close"}

IsFatal(op) == op \in FatalOps

FatalRaised == SelectSeq(raised, IsFatal)

IsReport(r) == Len(r) = 3

(***************************************************************************)
(* Properties of the orchestrator.                                         *)
(***************************************************************************)

\* C1: a browser launch failure is never propagated to the caller as an
\* exception: the invocation returns, and returns exactly one text unit.
C1_LaunchFailureReturnsText ==
    (Done /\ "launch" \in Range(raised)) =>
        (outcome = "returned" /\ Len(result) = 1)

\* C2: when the function has returned or raised, browser.close has been
\* invoked exactly once if the browser was launched and never otherwise; it
\* is invoked at most once at any time, and only on a launched browser.
C2_BrowserClosedExactlyOnce ==
    /\ Count(calls, "browser.close") <= 1
    /\ Count(calls, "browser.close") = 1 => BrowserLaunched
    /\ Done => (Count(calls, "browser.close") = 1 <=> BrowserLaunched)

\* C2 happens: a step after the launch raised and the browser was closed once
C2_Witness ==
    /\ Done
    /\ BrowserLaunched
    /\ "goto" \in Range(raised)
    /\ Count(calls, "browser.close") = 1

\* the URL parses, but not into a non-empty scheme and a non-empty netloc
FailsValidation(url) ==
    /\ ~urlparse(url).raised
    /\ (urlparse(url).scheme = <<>> \/ urlparse(url).netloc = <<>>)

\* the target URLs that fail validation
InvalidTargets == {url \in TargetUrls : FailsValidation(url)}

C4_FailureAbandonsAndReports ==
    FatalRaised # <<>> =>
        LET op == FatalRaised[1]
            n == Len(calls)
        IN  /\ Len(FatalRaised) = 1
            /\ pc \in {"browser_close", "done"}
            /\ calls[n] = "browser.close" /\ calls[n - 1] = op
            /\ retval = << <<"Failed: ">> \o ErrorOf(op) >>
            /\ (Done /\ "browser.close" \notin Range(raised)) =>
                    (outcome = "returned" /\ result = retval)

\* C4 happens: context creation raised and the caller got the one text
C4_Witness ==
    /\ Done
    /\ raised = <<"new_context">>
    /\ result = << <<"Failed: ", "new_context", " failed">> >>

InteractiveAt(lines) ==
    {i \in 1..Len(lines) :
        \E keyword \in Keywords : Contains(Lower(lines[i]), keyword)}

\* C6: for a snapshot with N interactive lines, the k-th of them gets the
\* suffix " [ref=k]", every other line is unchanged, and parse_refs
\* recovers exactly N entries whose refs are 1..N in order.
C6_RefsDenseAndRecovered ==
    pc = "refs_done" =>
        LET lines == SplitLines(aria_snapshot)
            out == SplitLines(snapshot_with_refs)
            hits == InteractiveAt(lines)
            rank(i) == Cardinality({j \in hits : j <= i})
        IN  /\ Len(out) = Len(lines)
            /\ \A i \in 1..Len(lines) :
                out[i] = IF i \in hits
                         THEN lines[i] \o <<" ", "[", "r", "e", "f", "=">>
                                \o IntToStr(rank(i)) \o <<"]">>
                         ELSE lines[i]
            /\ Len(element_refs) = Cardinality(hits)
            /\ \A k \in 1..Len(element_refs) : element_refs[k].ref = IntToStr(k)

\* the summary text reporting e elements, r requests and c console messages
ExpectedSummary(e, r, c) ==
    <<"Captured snapshot with ">> \o IntToStr(e) \o <<" elements", ", ">>
        \o IntToStr(r) \o <<" requests", ", ">>
        \o IntToStr(c) \o <<" console messages">>

\* C7: the step that assembles the report computes the summary from the
\* number of parsed references, the number of records in the network log
\* and the number of console records at that moment, and a returned report
\* opens with that summary.
C7_SummaryCounts ==
    /\ [][(pc = "title" /\ pc' = "context_close") =>
            SummaryText(summary_parts') =
                ExpectedSummary(Len(element_refs), Len(network_requests),
                                Len(console_messages))]_vars
    /\ [](pc \in {"context_close", "browser_close", "done"} /\ IsReport(retval)
            => retval[1] = SummaryText(summary_parts))
    /\ []((Done /\ outcome = "returned" /\ FatalRaised = <<>> /\ calls # <<>>)
            => result = retval /\ IsReport(result))

\* C7 happens: a report of 2 elements, 2 requests, 1 console message, one
\* of the two requests still without a response
C7_Witness ==
    /\ Done
    /\ IsReport(result)
    /\ result[1] = ExpectedSummary(2, 2, 1)
    /\ \E i \in 1..Len(network_requests) : network_requests[i].response = NoneObj

\* the records whose handle_response has run to its end
Completed ==
    {i \in 1..Len(network_requests) :
        network_requests[i].response # NoneObj /\ i \notin resp_tasks}

\* C8: for a completed record whose content-length header reads as an
\* integer (absent reads as 0): when the length is at most 50000 and the
\* content-type starts with application/json, text/ or application/xml the
\* body captured is the response's text (or the read-error placeholder if
\* reading it raised); in every other case it is the placeholder naming
\* the content-type and the length, and never the text.
C8_BodyInclusionPolicy ==
    \A i \in Completed :
        LET entry == network_requests[i]
            h == entry.response.headers
            ctype == IF h.content_type = NoneStr THEN <<>> ELSE h.content_type
            clen == ParseInt(IF h.content_length = NoneStr THEN <<"0">>
                             ELSE h.content_length)
            textual == \/ StartsWith(ctype, Json)
                       \/ StartsWith(ctype, <<"t","e","x","t","/">>)
                       \/ StartsWith(ctype, Xml)
        IN  clen.ok =>
                IF clen.value <= 50000 /\ textual
                THEN entry.response_body \in {entry.response.text, ReadErrorPlaceholder}
                ELSE /\ entry.response_body =
                            <<"[">> \o ctype \o <<" ", "-", " ">>
                                \o IntToStr(clen.value)
                                \o <<" ", "b", "y", "t", "e", "s", "]">>
                     /\ entry.response_body # entry.response.text

\* C8 happens: an application/json response of 100 bytes was read and its
\* text is the body captured
C8_Witness ==
    \E i \in Completed :
        /\ network_requests[i].response.headers.content_type = Json
        /\ network_requests[i].response.headers.content_length = <<"1","0","0">>
        /\ network_requests[i].response_body = ShortBody

\* C9: in the network section a record without a response has the status
\* line "Status: Pending" and one with a response has that response's
\* status; a body summary of more than 200 characters is shown as its
\* first 200 characters and "..."; an empty record list gives "No requests
\* captured" and an empty console list "No console messages".
C9_NetworkFormatting ==
    /\ network_requests = <<>> =>
            format_requests(network_requests) = <<"No requests captured">>
    /\ console_messages = <<>> =>
            format_console(console_messages) = <<"No console messages">>
    /\ \A i \in 1..Len(network_requests) :
        LET entry == network_requests[i]
            shown == FormatRecord(entry)
            body == entry.response_body
        IN  /\ Len(shown) >= 2
            /\ shown[2] = IF entry.response = NoneObj
                          THEN <<"   Status: ", "Pending">>
                          ELSE <<"   Status: ">> \o IntToStr(entry.response.status)
            /\ (body # NoneStr /\ Len(body) > 200) =>
                    /\ Len(shown) = 3
                    /\ shown[3] = <<"   Response: ">> \o SubSeq(body, 1, 200) \o <<"...">>

\* C9 happens: one record is shown with a truncated body, another Pending
C9_Witness ==
    /\ \E i \in 1..Len(network_requests) :
        /\ network_requests[i].response # NoneObj
        /\ Len(network_requests[i].response_body) = 201
    /\ \E i \in 1..Len(network_requests) : network_requests[i].response = NoneObj

\* C10 as claimed: when only bounded waits (the load wait, the selector
\* wait) failed, the invocation still returns the three-part report.
C10_BoundedWaitsNonFatal ==
    (/\ Done
     /\ raised # <<>>
     /\ Range(raised) \subseteq {"wait_for_load_state", "wait_for_selector"}) =>
        (outcome = "returned" /\ IsReport(result))

\* C10 amended: a failed selector wait is followed by the settle delay and
\* then the capture, and if nothing else fails the three-part report is
\* returned; a failed load wait is fatal: no capture, one "Failed:" text.
C10_OnlySelectorWaitNonFatal ==
    /\ "wait_for_selector" \in Range(raised) =>
            LET k == IndexOf(calls, "wait_for_selector")
            IN  /\ calls[k + 1] = "wait_for_timeout"
                /\ (pc # "wait_timeout" /\ "wait_for_timeout" \notin Range(raised))
                        => calls[k + 2] = "aria_snapshot"
    /\ (Done /\ raised = <<"wait_for_selector">>) =>
            (outcome = "returned" /\ IsReport(result))
    /\ "wait_for_load_state" \in Range(raised) =>
            /\ "aria_snapshot" \notin Range(calls)
            /\ retval = << <<"Failed: ">> \o ErrorOf("wait_for_load_state") >>
            /\ (Done /\ "browser.close" \notin Range(raised)) => result = retval

\* C10 happens: the selector wait failed and the report was returned
C10_Witness ==
    /\ Done
    /\ raised = <<"wait_for_selector">>
    /\ IsReport(result)
    /\ "wait_for_timeout" \in Range(calls)

(***************************************************************************)
(* Properties of the recorders.                                            *)
(***************************************************************************)

\* C11: once navigation has been started (goto has been called) the
\* console, request and response subscriptions are all registered, and no
\* event is recorded or delivered to a handler unless the page was created
\* and navigation was started after the registration.
C11_SubscribedBeforeNavigation ==
    /\ "goto" \in Range(calls) =>
           handlers = {"console", "request", "response"}
    /\ handlers # {} => "goto" \in Range(calls)
    /\ Events > 0 =>
           /\ handlers = {"console", "request", "response"}
           /\ IndexOf(calls, "new_page") < IndexOf(calls, "goto")

C11_Witness ==
    /\ pc = "goto"
    /\ handlers = {"console", "request", "response"}
    /\ Len(emitted) = 1
    /\ Len(console_events) = 1
    /\ Len(responses) = 1

\* the records of the log whose response field changes in a step
Attached ==
    {i \in 1..Len(network_requests) :
        i > Len(network_requests') \/
        network_requests'[i].response # network_requests[i].response}

\* C12: a record's response field changes at most once: a step changes the
\* response field of at most one record, that record had no response
\* before, the response now attached is the response of the record's own
\* request, and no earlier record of the same request was still without a
\* response; an attached response is never overwritten or removed.
C12_ResponseAttachedAtMostOnce ==
    [][ /\ Cardinality(Attached) <= 1
        /\ \A i \in Attached :
            /\ i <= Len(network_requests')
            /\ network_requests[i].response = NoneObj
            /\ network_requests'[i].response # NoneObj
            /\ network_requests'[i].response.request =
                    network_requests[i].request
            /\ \A j \in 1..(i - 1) :
                    network_requests[j].request = network_requests[i].request
                        => network_requests[j].response # NoneObj
      ]_vars

\* a second response of a request whose record already holds one was
\* delivered and the record kept the first
C12_Witness ==
    /\ Len(network_requests) = 1
    /\ network_requests[1].response # NoneObj
    /\ network_requests[1].response.status = 404
    /\ Len(responses) = 2
    /\ responses[1] = responses[2]

\* the records of request id that have no response yet
Pending(id) ==
    {i \in 1..Len(network_requests) :
        /\ network_requests[i].request.id = id
        /\ network_requests[i].response = NoneObj}

\* C13: a step that delivers a response event never creates a record, and
\* when the log holds no record of the response's request that is still
\* without a response, the step changes nothing: the log, the suspended
\* handlers, the console log and the orchestrator (no error is raised or
\* returned) are all as before.
C13_UnmatchedResponseDropped ==
    [][ responses' # responses =>
            /\ Len(network_requests') = Len(network_requests)
            /\ Pending(responses'[Len(responses')]) = {} =>
                    /\ network_requests' = network_requests
                    /\ resp_tasks' = resp_tasks
                    /\ req_tasks' = req_tasks
                    /\ console_messages' = console_messages
                    /\ UNCHANGED orchestrator
      ]_vars

\* the response of a request whose handler is still reading the request
\* body was delivered while the log held another request's pending record
C13_Witness ==
    /\ emitted = <<1, 2>>
    /\ responses = <<2>>
    /\ Len(network_requests) = 1
    /\ network_requests[1].request.id = 1
    /\ network_requests[1].response = NoneObj
    /\ network_requests[1].response_body = NoneStr
    /\ Cardinality(req_tasks) = 1

\* a suspended handle_request ends: whether the body was read or the read
\* raised, the record is appended (with the body read, or absent) and the
\* orchestrator is not affected
RequestReadSwallowed ==
    req_tasks' # req_tasks /\ req_tasks' \subseteq req_tasks =>
        /\ \E request \in req_tasks \ req_tasks' :
           \E request_body \in PostBodies \cup {NoneStr} :
                network_requests' =
                    Append(network_requests,
                           [request |-> request, response |-> NoneObj,
                            request_body |-> request_body,
                            response_body |-> NoneStr])
        /\ UNCHANGED orchestrator

\* a suspended handle_response ends: the response stays attached and the
\* body is the text read or the fixed placeholder; the orchestrator is not
\* affected
ResponseReadSwallowed ==
    resp_tasks' # resp_tasks /\ resp_tasks' \subseteq resp_tasks =>
        /\ \A i \in resp_tasks \ resp_tasks' :
            /\ network_requests'[i].response = network_requests[i].response
            /\ network_requests[i].response # NoneObj
            /\ network_requests'[i].response_body \in
                    { network_requests[i].response.text,
                      <<"[Error reading response]">> }
        /\ UNCHANGED orchestrator

\* the selector wait ends: nothing is returned, and when it raised the
\* next call is the settle delay
SelectorWaitSwallowed ==
    pc = "wait_selector" /\ pc' # pc =>
        /\ retval' = retval /\ outcome' = outcome /\ result' = result
        /\ IF raised' = raised
           THEN pc' = "aria_snapshot"
           ELSE /\ raised' = Append(raised, "wait_for_selector")
                /\ calls' = Append(calls, "wait_for_timeout")
                /\ pc' = "wait_timeout"

\* C14: failures of the best-effort steps are swallowed.  When the read of
\* a request body ends, by a value or by an exception, the record is
\* appended, with the body absent in the latter case; when the read of a
\* response body ends the response stays attached and the body is the text
\* or "[Error reading response]", so no record whose handler has finished
\* holds a response without a body; when the selector wait raises, the next
\* call is the settle delay; and an invocation in which only the selector
\* wait raised returns the three-unit report, never the single error text.
C14_BestEffortFailuresSwallowed ==
    /\ [][RequestReadSwallowed]_vars
    /\ [][ResponseReadSwallowed]_vars
    /\ [][SelectorWaitSwallowed]_vars
    /\ [](\A i \in 1..Len(network_requests) :
            (network_requests[i].response # NoneObj /\ i \notin resp_tasks)
                => network_requests[i].response_body # NoneStr)
    /\ []((Done /\ raised = <<"wait_for_selector">>) =>
            (outcome = "returned" /\ IsReport(result)))

\* all three failures in one invocation: the selector wait raised, the
\* read of the POST body raised, the read of the response body raised, and
\* the caller received the report
C14_Witness ==
    /\ Done
    /\ raised = <<"wait_for_selector">>
    /\ "wait_for_timeout" \in Range(calls)
    /\ outcome = "returned" /\ IsReport(result)
    /\ Len(network_requests) = 1
    /\ network_requests[1].request.method = POST
    /\ network_requests[1].request_body = NoneStr
    /\ network_requests[1].response # NoneObj
    /\ network_requests[1].response.headers.content_type = Json
    /\ network_requests[1].response_body = <<"[Error reading response]">>

\* C15: the console log is at every moment exactly the sequence of the
\* console events delivered so far, each once and in delivery order, with
\* nothing filtered and no duplicate removed; and the console section the
\* assembly step writes renders exactly the events delivered until then,
\* in that order.
C15_ConsoleLogIsEventHistory ==
    /\ [](console_messages = console_events)
    /\ [][ output_parts' # output_parts =>
                output_parts'[11] = format_console(console_events) ]_vars

\* the same console event twice with another in between: the returned
\* report has the three lines in delivery order
C15_Witness ==
    /\ Done
    /\ IsReport(result)
    /\ Len(console_events) = 3
    /\ console_events[1] = console_events[3]
    /\ console_events[1] # console_events[2]
    /\ output_parts[11] =
            << "CON [", "E", "R", "R", "O", "R", "] ", "n", "o", "\n",
               "CON [", "L", "O", "G", "] ", "h", "i", "\n",
               "CON [", "E", "R", "R", "O", "R", "] ", "n", "o" >>

\* C16 as claimed: whenever the response event of a request was delivered
\* (after its request event) and no handler of that request is still
\* reading the request body, a record of that request holds a response.
C16_ResponseNeverLost ==
    \A k \in 1..Len(responses) :
        (\A request \in req_tasks : request.id # responses[k]) =>
            \E i \in 1..Len(network_requests) :
                /\ network_requests[i].request.id = responses[k]
                /\ network_requests[i].response # NoneObj

\* C17 as claimed: the records are in the log in the order in which their
\* request events were delivered.
C17_RecordsInDeliveryOrder ==
    \A i, j \in 1..Len(network_requests) :
        i < j =>
            IndexOf(emitted, network_requests[i].request.id)
                < IndexOf(emitted, network_requests[j].request.id)

\* C18 as claimed: whenever the report can be assembled (the title await
\* is about to return) every record that holds a response also holds a
\* body summary, so format_requests renders it with a Response line.
C18_ResponseImpliesBodyAtAssembly ==
    pc = "title" =>
        \A i \in 1..Len(network_requests) :
            network_requests[i].response # NoneObj =>
                /\ network_requests[i].response_body # NoneStr
                /\ Len(FormatRecord(network_requests[i])) = 3

\* C19: the summary and the full report describe the same log: in the
\* parts the assembly step stores, and in the units the caller receives,
\* the request count of the summary is the number of request entries of
\* the network section and the console count is the number of lines of the
\* console section.
C19_SummaryMatchesReport ==
    /\ output_parts # <<>> =>
        /\ summary_parts[2] =
                IntToStr(Count(output_parts[8], "REQ ")) \o <<" requests">>
        /\ summary_parts[3] =
                IntToStr(Count(output_parts[11], "CON ["))
                    \o <<" console messages">>
    /\ (Done /\ IsReport(result)) =>
            result[1] = ExpectedSummary(Len(element_refs),
                                        Count(result[2], "REQ "),
                                        Count(result[2], "CON ["))

\* a report with a pending request and a console line was returned, and a
\* further console event arrived after the assembly
C19_Witness ==
    /\ Done
    /\ IsReport(result)
    /\ Count(result[2], "REQ ") = 1
    /\ Count(result[2], "Pending") = 1
    /\ Count(result[2], "CON [") = 1
    /\ Len(console_events) = 2

====
